---- MODULE Spec2Model ----
(***************************************************************************)
(* The order reconciliation pipeline of src/main.py (process_all_files):   *)
(* three exports (storefront, ERP, Mall-B) and the master SKU table are    *)
(* turned into the ledger, the warnings and the accounting upload.  Tables *)
(* are sequences of records, one action per block of the function.         *)
(*                                                                         *)
(* Strings the code trims, searches or parses are sequences of one-letter  *)
(* strings.  TLA+ strings are ASCII here, so the Korean literals of the    *)
(* source are written in ASCII:                                            *)
(*   "smartstore" = 스마트스토어   "godomall5" = 고도몰5   "coupang" = 쿠팡  *)
(*   "baemin" = 배민상회   "ezwel" = 이지웰몰                               *)
(*   "taxable" = 과세   "exempt" = 면세                                     *)
(*   the letter "W" = 원 (the currency sign the cleaning step removes)     *)
(*   the letters "g","i" = 개, 입 (the 3-pack marker is "3gi" or "3g")     *)
(***************************************************************************)
EXTENDS Integers, Sequences, FiniteSets, TLC

VARIABLES
    pc,                         \* the block of process_all_files to run next
    df_ecount_orig,             \* ERP export, with original_order
    df_smartstore,              \* storefront export
    df_godomall,                \* Mall-B export (cleaned and extended in place)
    df_master,                  \* master SKU table
    godomall_warnings,          \* invoice-mismatch warnings
    smartstore_prices,          \* storefront records entering the join
    godomall_prices_for_merge,  \* Mall-B records entering the join
    df_final,                   \* ERP rows after the two left joins
    warnings,                   \* the ordered warning list
    df_main_result,             \* the ledger (with original_order)
    df_quantity_summary,        \* the quantity summary
    df_packing_list_final,      \* the packing list
    df_merged,                  \* the ledger joined to the master table
    df_ecount_upload,           \* the accounting upload, sorted, before line 852
    missing,                    \* what the inputs lack ("none": nothing)
    result                      \* what process_all_files returns

vars == <<pc, df_ecount_orig, df_smartstore, df_godomall, df_master,
          godomall_warnings, smartstore_prices, godomall_prices_for_merge,
          df_final, warnings, df_main_result, df_quantity_summary,
          df_packing_list_final, df_merged, df_ecount_upload, missing, result>>

-----------------------------------------------------------------------------
(* Cells of a spreadsheet column: a string, an integer or an empty cell.   *)

Str(s) == [t |-> "str", s |-> s, n |-> 0]
Num(n) == [t |-> "int", s |-> <<>>, n |-> n]
NaN == [t |-> "nan", s |-> <<>>, n |-> 0]

isna(c) == c.t = "nan"

\* Series.fillna(other)
fillna(c, other) == IF isna(c) THEN other ELSE c

Range(s) == {s[i] : i \in 1..Len(s)}

SeqsUpTo(S, n) == UNION {[1..k -> S] : k \in 0..n}

Digits == <<"0", "1", "2", "3", "4", "5", "6", "7", "8", "9">>

DigitVal(c) == (CHOOSE i \in 1..10 : Digits[i] = c) - 1

IsDigits(s) == s # <<>> /\ \A i \in 1..Len(s) : s[i] \in Range(Digits)

RECURSIVE ParseNat(_)
ParseNat(s) ==
    IF s = <<>> THEN 0
    ELSE ParseNat(SubSeq(s, 1, Len(s) - 1)) * 10 + DigitVal(s[Len(s)])

RECURSIVE NatToStr(_)
NatToStr(n) ==
    IF n < 10 THEN <<Digits[n + 1]>>
    ELSE NatToStr(n \div 10) \o <<Digits[(n % 10) + 1]>>

RECURSIVE lstrip(_)
lstrip(s) == IF s # <<>> /\ Head(s) = " " THEN lstrip(Tail(s)) ELSE s

RECURSIVE rstrip(_)
rstrip(s) ==
    IF s # <<>> /\ s[Len(s)] = " " THEN rstrip(SubSeq(s, 1, Len(s) - 1)) ELSE s

\* str.strip()
strip(s) == rstrip(lstrip(s))

\* astype(str) of one cell
astype_str(c) ==
    CASE c.t = "str" -> c.s
      [] c.t = "int" -> IF c.n < 0 THEN <<"-">> \o NatToStr(-c.n) ELSE NatToStr(c.n)
      [] OTHER -> <<"n", "a", "n">>

\* pd.to_numeric(errors='coerce') of one cell
to_numeric(c) ==
    CASE c.t = "int" -> c
      [] c.t = "str" -> IF IsDigits(strip(c.s)) THEN Num(ParseNat(strip(c.s))) ELSE NaN
      [] OTHER -> NaN

\* astype(str).str.strip() of a key cell
KeyStr(c) == strip(astype_str(c))

\* pd.to_numeric(errors='coerce').fillna(0).astype(int) of one cell
KeyInt(c) == fillna(to_numeric(c), Num(0)).n

\* astype(str).str.replace('[W,]', '') then to_numeric(coerce).fillna(0)
CleanMoney(c) ==
    fillna(to_numeric(Str(SelectSeq(astype_str(c), LAMBDA ch : ch \notin {"W", ","}))),
           Num(0)).n

-----------------------------------------------------------------------------
(* Order of strings, as Python compares them (code point by code point).   *)

Alphabet == <<" ", ",", "-", "0", "1", "2", "3", "4", "5", "6", "7", "8", "9",
              "A", "B", "K", "L", "O", "X", "a", "e", "g", "i", "m", "n", "u">>

CharRank(c) == CHOOSE i \in 1..Len(Alphabet) : Alphabet[i] = c

RECURSIVE LexLess(_, _)
LexLess(s, u) ==
    IF u = <<>> THEN FALSE
    ELSE IF s = <<>> THEN TRUE
    ELSE IF Head(s) = Head(u) THEN LexLess(Tail(s), Tail(u))
    ELSE CharRank(Head(s)) < CharRank(Head(u))

\* The keys of a groupby, in the sorted order pandas iterates them.
RECURSIVE SortedKeys(_)
SortedKeys(S) ==
    IF S = {} THEN <<>>
    ELSE LET m == CHOOSE x \in S : \A y \in S \ {x} : LexLess(x, y)
         IN <<m>> \o SortedKeys(S \ {m})

RECURSIVE SumSeq(_)
SumSeq(s) == IF s = <<>> THEN 0 ELSE Head(s) + SumSeq(Tail(s))

RECURSIVE Flatten(_)
Flatten(ss) == IF ss = <<>> THEN <<>> ELSE Head(ss) \o Flatten(Tail(ss))

Abs(x) == IF x < 0 THEN -x ELSE x

\* A warning: the parts its message is formatted from (lines 706, 745, 765, 783).
Warning(kind, platform, name, pname, amount) ==
    [kind |-> kind, platform |-> platform, name |-> name, pname |-> pname,
     amount |-> amount]

-----------------------------------------------------------------------------
(* The try/except of process_all_files, lines 659 and 874-878: a step that *)
(* raises ends the run in the except branch.  `missing` names what the     *)
(* inputs lack; the first line that needs it raises.                       *)

\* a returned table, and None
Table(columns, rows) == [present |-> TRUE, columns |-> columns, rows |-> rows]

None == [present |-> FALSE, columns |-> <<>>, rows |-> <<>>]

\* before the return
NoResult ==
    [returned |-> FALSE, ledger |-> None, summary |-> None, packing |-> None,
     upload |-> None, record |-> None, ok |-> FALSE, message |-> "", warnings |-> <<>>]

\* the block in which the exception is raised:
\*   "unreadable"         a file pd.read_excel cannot read (lines 660-662)
\*   "smartstore_amount"  the storefront export has no paid-amount column (line 714)
\*   "ecount_platform"    the ERP export has no platform column (line 746)
\*   "master_pack"        the master table has no pack-size column (line 778)
RaiseStage(d) ==
    CASE d = "unreadable" -> "correct_mallb"
      [] d = "smartstore_amount" -> "prepare"
      [] d = "ecount_platform" -> "override"
      [] d = "master_pack" -> "derive"

Raises == missing # "none" /\ pc = RaiseStage(missing)

\* a mutation of FailureResult: the warnings collected so far are returned
FailureResultWithWarnings ==
    [returned |-> TRUE, ledger |-> None, summary |-> None, packing |-> None,
     upload |-> None, record |-> None, ok |-> FALSE, message |-> "error",
     warnings |-> warnings]

\* line 878
FailureResult ==
    [returned |-> TRUE, ledger |-> None, summary |-> None, packing |-> None,
     upload |-> None, record |-> None, ok |-> FALSE, message |-> "error",
     warnings |-> <<>>]

\* lines 874-878
Fail ==
    /\ Raises
    /\ result' = FailureResult
    /\ pc' = "failed"
    /\ UNCHANGED <<missing, df_ecount_orig, df_smartstore, df_godomall, df_master,
                   godomall_warnings, smartstore_prices, godomall_prices_for_merge,
                   df_final, warnings, df_main_result, df_quantity_summary,
                   df_packing_list_final, df_merged, df_ecount_upload>>

-----------------------------------------------------------------------------
(* Line-item corrector of Mall-B, lines 678-707.                           *)

\* lines 679-682: the six monetary columns cleaned to numbers
CleanRow(r) ==
    [r EXCEPT !.item = Num(CleanMoney(r.item)),
              !.ship = Num(CleanMoney(r.ship)),
              !.member = Num(CleanMoney(r.member)),
              !.coupon = Num(CleanMoney(r.coupon)),
              !.mileage = Num(CleanMoney(r.mileage)),
              !.total = Num(CleanMoney(r.total))]

\* Mutant of duplicated: keep='last', the last row of a consignee is the original.
duplicatedKeepLast(df, i) == \E j \in (i + 1)..Len(df) : df[j].name = df[i].name

\* DataFrame.duplicated(subset=[name]): a row is a duplicate when an earlier
\* row carries the same raw consignee cell
duplicated(df, i) == \E j \in 1..(i - 1) : df[j].name = df[i].name

\* lines 685-689
CorrectedShipping(df, i) == IF duplicated(df, i) THEN 0 ELSE df[i].ship.n

\* lines 691-694
CorrectedAmount(r, shipping) ==
    r.item.n + shipping - r.member.n - r.coupon.n - r.mileage.n

ExtendGodomall(df) ==
    [i \in 1..Len(df) |->
        [sku |-> df[i].sku, name |-> df[i].name, qty |-> df[i].qty,
         item |-> df[i].item, ship |-> df[i].ship, member |-> df[i].member,
         coupon |-> df[i].coupon, mileage |-> df[i].mileage, total |-> df[i].total,
         corrected_shipping |-> CorrectedShipping(df, i),
         corrected |-> CorrectedAmount(df[i], CorrectedShipping(df, i))]]

\* the rows of one groupby group, in row order
Group(df, name) == SelectSeq(df, LAMBDA r : r.name = name)

\* lines 701-703
Discrepancy(group) ==
    SumSeq([i \in 1..Len(group) |-> group[i].corrected]) - group[1].total.n

\* Mutant of Mismatch: the tolerance test written >= 1.
MismatchAtLeastOne(group) == Abs(Discrepancy(group)) >= 1

\* line 705
Mismatch(group) == Abs(Discrepancy(group)) > 1

\* lines 698-707: one warning per mismatching group, groups in sorted order
GodomallWarnings(df) ==
    LET names == SortedKeys({astype_str(df[i].name) : i \in 1..Len(df)})
        warn(nm) ==
            LET group == Group(df, Str(nm))
            IN IF Mismatch(group)
               THEN <<Warning("godomall_mismatch", "", nm, <<>>, Discrepancy(group))>>
               ELSE <<>>
    IN Flatten([i \in 1..Len(names) |-> warn(names[i])])

CorrectMallB ==
    /\ pc = "correct_mallb"
    /\ ~Raises
    /\ df_godomall' = ExtendGodomall([i \in 1..Len(df_godomall) |-> CleanRow(df_godomall[i])])
    /\ godomall_warnings' = GodomallWarnings(df_godomall')
    /\ pc' = "prepare"
    /\ UNCHANGED <<missing, result, df_ecount_orig, df_smartstore, df_master, smartstore_prices,
                   godomall_prices_for_merge, df_final, warnings, df_main_result,
                   df_quantity_summary, df_packing_list_final, df_merged,
                   df_ecount_upload>>

-----------------------------------------------------------------------------
(* Preparation of the two price tables and of the ERP rows, lines 710-736. *)

RawKey(r) == <<r.sku, r.qty, r.name>>

\* drop_duplicates(subset=key, keep='first'): row i stays when no earlier row
\* carries the same raw key cells
KeepRow(df, i) == ~\E j \in 1..(i - 1) : RawKey(df[j]) = RawKey(df[i])

RECURSIVE DropFrom(_, _)
DropFrom(df, i) ==
    IF i > Len(df) THEN <<>>
    ELSE (IF KeepRow(df, i) THEN <<df[i]>> ELSE <<>>) \o DropFrom(df, i + 1)

drop_duplicates(df) == DropFrom(df, 1)

\* lines 726-734 on a price record: keys trimmed and cast
UnifyPrice(r, amt) ==
    [sku |-> KeyStr(r.sku), qty |-> KeyInt(r.qty), name |-> KeyStr(r.name), amt |-> amt]

\* lines 713-714, 728, 733
SmartstorePrices(df) ==
    LET d == drop_duplicates(df)
    IN [i \in 1..Len(d) |-> UnifyPrice(d[i], d[i].amount)]

\* lines 717-723, 729, 734
GodomallPrices(df) ==
    LET d == drop_duplicates(df)
    IN [i \in 1..Len(d) |-> UnifyPrice(d[i], Num(d[i].corrected))]

\* lines 710, 727, 732, 736 on one ERP row
UnifyOrder(r) ==
    [sku |-> KeyStr(r.sku), pname |-> r.pname, qty |-> KeyInt(r.qty),
     paid |-> Num(KeyInt(r.amount)), platform |-> r.platform,
     name |-> KeyStr(r.name), original_order |-> r.original_order]

PrepareMerge ==
    /\ pc = "prepare"
    /\ ~Raises
    /\ df_final' = [i \in 1..Len(df_ecount_orig) |-> UnifyOrder(df_ecount_orig[i])]
    /\ smartstore_prices' = SmartstorePrices(df_smartstore)
    /\ godomall_prices_for_merge' = GodomallPrices(df_godomall)
    /\ pc' = "merge"
    /\ UNCHANGED <<missing, result, df_ecount_orig, df_smartstore, df_godomall, df_master,
                   godomall_warnings, warnings, df_main_result, df_quantity_summary,
                   df_packing_list_final, df_merged, df_ecount_upload>>

-----------------------------------------------------------------------------
(* The two left joins, lines 738-742.                                      *)

JoinKey(r) == <<r.sku, r.qty, r.name>>

\* the records of `right` a left row is joined to, in the order of `right`
Matches(l, right) == SelectSeq(right, LAMBDA r : JoinKey(r) = JoinKey(l))

\* how='left': the amounts joined to a left row, one output row each; a left
\* row without a match is kept once with an empty amount
Joined(l, right) ==
    LET m == Matches(l, right)
    IN IF m = <<>> THEN <<NaN>> ELSE [i \in 1..Len(m) |-> m[i].amt]

MergedRow(l, a, b) ==
    [sku |-> l.sku, pname |-> l.pname, qty |-> l.qty, paid |-> l.paid,
     platform |-> l.platform, name |-> l.name, original_order |-> l.original_order,
     store_amt |-> a, mall_amt |-> b]

\* the rows one ERP row becomes after both merges
MergeOne(l, store, mall) ==
    LET sa == Joined(l, store)
        ma == Joined(l, mall)
    IN Flatten([i \in 1..Len(sa) |-> [j \in 1..Len(ma) |-> MergedRow(l, sa[i], ma[j])]])

MergeAll(left, store, mall) ==
    Flatten([i \in 1..Len(left) |-> MergeOne(left[i], store, mall)])

MergePrices ==
    /\ pc = "merge"
    /\ ~Raises
    /\ df_final' = MergeAll(df_final, smartstore_prices, godomall_prices_for_merge)
    /\ pc' = "override"
    /\ UNCHANGED <<missing, result, df_ecount_orig, df_smartstore, df_godomall, df_master,
                   godomall_warnings, smartstore_prices, godomall_prices_for_merge,
                   warnings, df_main_result, df_quantity_summary,
                   df_packing_list_final, df_merged, df_ecount_upload>>

-----------------------------------------------------------------------------
(* Correction-failure warnings and the override, lines 744-758.            *)

\* Mutant of CorrectionFailed: a row fails only when neither source has an amount.
CorrectionFailedNoSource(r) ==
    /\ r.platform \in {"smartstore", "godomall5"}
    /\ isna(r.store_amt)
    /\ isna(r.mall_amt)

\* the row filter of lines 746-747
CorrectionFailed(r) ==
    \/ r.platform = "smartstore" /\ isna(r.store_amt)
    \/ r.platform = "godomall5" /\ isna(r.mall_amt)

\* line 745
CorrectionWarning(r) == Warning("correction_failed", r.platform, r.name, r.pname, 0)

\* Mutant of OverrideGodomall: the platform test dropped.
OverrideGodomallAnyPlatform(r) == fillna(r.mall_amt, r.paid)

\* lines 751-753
OverrideGodomall(r) ==
    IF r.platform = "godomall5" THEN fillna(r.mall_amt, r.paid) ELSE r.paid

\* Mutant of OverrideSmartstore: the platform test dropped.
OverrideSmartstoreAnyPlatform(r, paid) == fillna(r.store_amt, paid)

\* lines 754-756, on the amount lines 751-753 left
OverrideSmartstore(r, paid) ==
    IF r.platform = "smartstore" THEN fillna(r.store_amt, paid) ELSE paid

FinalAmount(r) == OverrideSmartstore(r, OverrideGodomall(r))

\* line 758
LedgerRow(r) ==
    [sku |-> r.sku, pname |-> r.pname, qty |-> r.qty, paid |-> FinalAmount(r),
     platform |-> r.platform, name |-> r.name, original_order |-> r.original_order]

Override ==
    /\ pc = "override"
    /\ ~Raises
    /\ warnings' = [i \in 1..Len(SelectSeq(df_final, CorrectionFailed)) |->
                        CorrectionWarning(SelectSeq(df_final, CorrectionFailed)[i])]
                   \o godomall_warnings
    /\ df_main_result' = [i \in 1..Len(df_final) |-> LedgerRow(df_final[i])]
    /\ pc' = "homonym"
    /\ UNCHANGED <<missing, result, df_ecount_orig, df_smartstore, df_godomall, df_master,
                   godomall_warnings, smartstore_prices, godomall_prices_for_merge,
                   df_final, df_quantity_summary, df_packing_list_final, df_merged,
                   df_ecount_upload>>

-----------------------------------------------------------------------------
(* Split-order (homonym) warnings, lines 760-766.                          *)

\* line 762: the original_order values of one consignee, in ledger order
Orders(df, nm) ==
    LET g == SelectSeq(df, LAMBDA r : r.name = nm)
    IN [i \in 1..Len(g) |-> g[i].original_order]

Max(S) == CHOOSE x \in S : \A y \in S : y <= x
Min(S) == CHOOSE x \in S : \A y \in S : x <= y

\* Mutant of Suspicious: every consignee with several rows is flagged.
SuspiciousAnyRepeat(orders) == Len(orders) > 1

\* Mutant of Suspicious: the span counted without its + 1.
SuspiciousSpan(orders) ==
    /\ Len(orders) > 1
    /\ (Max(Range(orders)) - Min(Range(orders))) # Len(orders)

\* line 764
Suspicious(orders) ==
    /\ Len(orders) > 1
    /\ (Max(Range(orders)) - Min(Range(orders)) + 1) # Len(orders)

HomonymWarnings(df) ==
    LET names == SortedKeys({df[i].name : i \in 1..Len(df)})
        warn(nm) == IF Suspicious(Orders(df, nm))
                    THEN <<Warning("homonym", "", nm, <<>>, 0)>>
                    ELSE <<>>
    IN Flatten([i \in 1..Len(names) |-> warn(names[i])])

Homonym ==
    /\ pc = "homonym"
    /\ ~Raises
    /\ warnings' = warnings \o HomonymWarnings(df_main_result)
    /\ pc' = "assemble"
    /\ UNCHANGED <<missing, result, df_ecount_orig, df_smartstore, df_godomall, df_master,
                   godomall_warnings, smartstore_prices, godomall_prices_for_merge,
                   df_final, df_main_result, df_quantity_summary,
                   df_packing_list_final, df_merged, df_ecount_upload>>

-----------------------------------------------------------------------------
(* Quantity summary and packing list, lines 768-775.                       *)

\* a mutation of QuantitySummary: the rows of a product are counted
QuantitySummaryRowCount(df) ==
    LET names == SortedKeys({df[i].pname : i \in 1..Len(df)})
        total(nm) == SumSeq([i \in 1..Len(df) |-> IF df[i].pname = nm THEN 1 ELSE 0])
    IN [i \in 1..Len(names) |-> [pname |-> names[i], count |-> total(names[i])]]

\* line 769: one row per product name, groups in sorted order
QuantitySummary(df) ==
    LET names == SortedKeys({df[i].pname : i \in 1..Len(df)})
        total(nm) == SumSeq([i \in 1..Len(df) |-> IF df[i].pname = nm THEN df[i].qty ELSE 0])
    IN [i \in 1..Len(names) |-> [pname |-> names[i], count |-> total(names[i])]]

\* sort_values(by='original_order'), rows of equal position kept in order
RECURSIVE InsertByOrder(_, _)
InsertByOrder(x, s) ==
    IF s = <<>> \/ ~(Head(s).original_order < x.original_order)
    THEN <<x>> \o s
    ELSE <<Head(s)>> \o InsertByOrder(x, Tail(s))

RECURSIVE SortByOrder(_)
SortByOrder(s) ==
    IF s = <<>> THEN <<>> ELSE InsertByOrder(Head(s), SortByOrder(Tail(s)))

\* line 771: the row's consignee differs from the previous row's
is_first_item(df, i) == i = 1 \/ df[i].name # df[i - 1].name

\* a mutation of BundleNumber: the row number
BundleNumberRowIndex(df, i) == i

\* line 772: cumsum of is_first_item
BundleNumber(df, i) == Cardinality({j \in 1..i : is_first_item(df, j)})

\* lines 770-775
PackingList(ledger) ==
    LET df == SortByOrder(ledger)
    IN [i \in 1..Len(df) |->
          [bundle |-> IF is_first_item(df, i) THEN Num(BundleNumber(df, i)) ELSE Str(<<>>),
           pname |-> df[i].pname, qty |-> df[i].qty, name |-> df[i].name,
           platform |-> df[i].platform]]

Assemble ==
    /\ pc = "assemble"
    /\ ~Raises
    /\ df_quantity_summary' = QuantitySummary(df_main_result)
    /\ df_packing_list_final' = PackingList(df_main_result)
    /\ pc' = "derive"
    /\ UNCHANGED <<missing, result, df_ecount_orig, df_smartstore, df_godomall, df_master,
                   godomall_warnings, smartstore_prices, godomall_prices_for_merge,
                   df_final, warnings, df_main_result, df_merged, df_ecount_upload>>

-----------------------------------------------------------------------------
(* Master join, derived fields, the accounting upload and the return,      *)
(* lines 777-872.                                                          *)

NoTax == "nan"

\* lines 778-779: how='left' on sku = SKU code
MasterJoin(l, master) ==
    LET m == SelectSeq(master, LAMBDA r : r.sku = l.sku)
        row(msku, tax, pack) ==
            [sku |-> l.sku, pname |-> l.pname, qty |-> l.qty, paid |-> l.paid,
             platform |-> l.platform, name |-> l.name,
             original_order |-> l.original_order,
             master_sku |-> msku, tax |-> tax, pack |-> pack]
    IN IF m = <<>> THEN <<row(NaN, NoTax, NaN)>>
       ELSE [i \in 1..Len(m) |-> row(Str(m[i].sku), m[i].tax, m[i].pack)]

\* lines 781-783
UnmasteredWarnings(df) ==
    LET u == SelectSeq(df, LAMBDA r : isna(r.master_sku))
    IN [i \in 1..Len(u) |-> Warning("unregistered", "", u[i].sku, u[i].pname, 0)]

\* a mutation of client_map: no fallback to the platform name
client_map_known_only(platform) ==
    CASE platform = "coupang" -> "coupang_corp"
      [] platform = "godomall5" -> "goraemi_mall_godomall"
      [] platform = "smartstore" -> "storefarm"
      [] platform = "baemin" -> "woowa_baemin"
      [] platform = "ezwel" -> "hyundai_ezwel"
      [] OTHER -> "nan"

\* lines 786-792, 798
client_map(platform) ==
    CASE platform = "coupang" -> "coupang_corp"
      [] platform = "godomall5" -> "goraemi_mall_godomall"
      [] platform = "smartstore" -> "storefarm"
      [] platform = "baemin" -> "woowa_baemin"
      [] platform = "ezwel" -> "hyundai_ezwel"
      [] OTHER -> platform

\* line 800
TransactionType(tax) == IF tax = "exempt" THEN 12 ELSE 11

\* str.contains(pat)
Contains(s, pat) ==
    \E i \in 0..(Len(s) - Len(pat)) : SubSeq(s, i + 1, i + Len(pat)) = pat

\* line 805
is_box_order(r) == Contains(r.pname, <<"B", "O", "X">>)

\* line 808
is_3_pack(r) == Contains(r.pname, <<"3", "g", "i">>) \/ Contains(r.pname, <<"3", "g">>)

\* line 806
PackSize(r) == fillna(to_numeric(r.pack), Num(1)).n

\* line 807
base_quantity(r) == IF is_box_order(r) THEN r.qty * PackSize(r) ELSE r.qty

\* a mutation of final_quantity: the 3-pack factor only for unboxed rows
final_quantity_exclusive(r) ==
    IF is_box_order(r) THEN base_quantity(r)
    ELSE IF is_3_pack(r) THEN r.qty * 3 ELSE r.qty

\* lines 809, 811
final_quantity(r) == IF is_3_pack(r) THEN base_quantity(r) * 3 ELSE base_quantity(r)

\* a mutation of BoxCount: the units shipped instead of the boxes ordered
BoxCountUnits(r) == IF is_box_order(r) THEN Num(final_quantity(r)) ELSE NaN

\* line 810
BoxCount(r) == IF is_box_order(r) THEN Num(r.qty) ELSE NaN

\* line 814
PaidNumber(r) == fillna(to_numeric(r.paid), Num(0)).n

\* A fraction num/den, den > 0.  The code computes paid / 1.1 in binary
\* floating point; for integer amounts the quotient 10 * paid / 11 is never
\* within 1/22 of a half, so rounding the exact fraction gives the same integer.
Frac(num, den) == [num |-> num, den |-> den]

\* a mutation of SupplyValue: every row is divided by 1.1
SupplyValueAllTaxed(r) == Frac(10 * PaidNumber(r), 11)

\* line 815: paid / 1.1 for taxable rows, paid otherwise
SupplyValue(r) ==
    IF r.tax = "taxable" THEN Frac(10 * PaidNumber(r), 11) ELSE Frac(PaidNumber(r), 1)

\* line 817: paid - supply value
VatValue(r) ==
    LET sv == SupplyValue(r)
    IN Frac(PaidNumber(r) * sv.den - sv.num, sv.den)

\* a mutation of Round: the fraction is cut off
RoundDown(f) == f.num \div f.den

\* line 834: round() to the nearest integer, halves to the even neighbour
Round(f) ==
    LET q == f.num \div f.den
        rem == f.num - q * f.den
    IN IF 2 * rem < f.den THEN q
       ELSE IF 2 * rem > f.den THEN q + 1
       ELSE IF q % 2 = 0 THEN q ELSE q + 1

\* lines 823-828: the 27 columns of the upload schema, then original_order
\*   date 일자, seq_no 순번, client_code 거래처코드, counterparty 거래처명,
\*   staff 담당자, warehouse 출하창고, code 거래유형, currency 통화,
\*   exchange_rate 환율, memo_slip 적요_전표, receivable 미수금, total 총합계,
\*   linked_slip 연결전표, item_code 품목코드, item_name 품목명, standard 규격,
\*   box 박스, quantity 수량, unit_price 단가, foreign_amount 외화금액,
\*   supply 공급가액, vat 부가세, memo_item 적요_품목,
\*   production_slip 생산전표생성, serial_lot 시리얼/로트, management 관리항목,
\*   customer 쇼핑몰고객명
ecount_columns ==
    <<"date", "seq_no", "client_code", "counterparty", "staff", "warehouse", "code",
      "currency", "exchange_rate", "memo_slip", "receivable", "total", "linked_slip",
      "item_code", "item_name", "standard", "box", "quantity", "unit_price",
      "foreign_amount", "supply", "vat", "memo_item", "production_slip", "serial_lot",
      "management", "customer", "original_order">>

\* ecount_columns[:-1]
AllButLast(s) == SubSeq(s, 1, Len(s) - 1)

\* lines 797-820, 833-834: the columns the derivation produces.  Line 797
\* sets the date on a frame that has no row yet, so the column is born empty
\* and line 798, which brings the rows, leaves it without a value.
UploadRow(r) ==
    [date |-> NaN, counterparty |-> client_map(r.platform), warehouse |-> "goraemi",
     code |-> TransactionType(r.tax), memo_slip |-> "am_online",
     item_code |-> r.sku, box |-> BoxCount(r), quantity |-> final_quantity(r),
     supply |-> Round(SupplyValue(r)), vat |-> Round(VatValue(r)),
     customer |-> r.name, original_order |-> r.original_order]

\* lines 829-831: a column of the list that the frame lacks is filled with ''
FillColumns(u) ==
    LET v == u
    IN [date |-> v.date, seq_no |-> "", client_code |-> "",
        counterparty |-> v.counterparty, staff |-> "", warehouse |-> v.warehouse,
        code |-> v.code, currency |-> "", exchange_rate |-> "",
        memo_slip |-> v.memo_slip, receivable |-> "", total |-> "", linked_slip |-> "",
        item_code |-> v.item_code, item_name |-> "", standard |-> "", box |-> v.box,
        quantity |-> v.quantity, unit_price |-> "", foreign_amount |-> "",
        supply |-> v.supply, vat |-> v.vat, memo_item |-> "", production_slip |-> "",
        serial_lot |-> "", management |-> "", customer |-> v.customer,
        original_order |-> v.original_order]

\* df[columns]
Project(df, columns) ==
    [i \in 1..Len(df) |-> [c \in Range(columns) |-> df[i][c]]]

\* lines 839-845
sort_order == <<"goraemi_mall_godomall", "storefarm", "coupang_corp", "woowa_baemin",
                "hyundai_ezwel">>

\* line 847: the category code; a counterparty outside the list sorts last
CounterpartyRank(c) ==
    IF c \in Range(sort_order) THEN CHOOSE i \in 1..Len(sort_order) : sort_order[i] = c
    ELSE Len(sort_order) + 1

\* a mutation of UploadLess: the transaction-type code is no sort key
UploadLessNoCode(a, b) ==
    LET ka == <<CounterpartyRank(a.counterparty), a.original_order>>
        kb == <<CounterpartyRank(b.counterparty), b.original_order>>
    IN \/ ka[1] < kb[1]
       \/ ka[1] = kb[1] /\ ka[2] < kb[2]

\* lines 849-851
UploadLess(a, b) ==
    LET ka == <<CounterpartyRank(a.counterparty), a.code, a.original_order>>
        kb == <<CounterpartyRank(b.counterparty), b.code, b.original_order>>
    IN \/ ka[1] < kb[1]
       \/ ka[1] = kb[1] /\ ka[2] < kb[2]
       \/ ka[1] = kb[1] /\ ka[2] = kb[2] /\ ka[3] < kb[3]

RECURSIVE InsertUpload(_, _)
InsertUpload(x, s) ==
    IF s = <<>> \/ ~UploadLess(Head(s), x)
    THEN <<x>> \o s
    ELSE <<Head(s)>> \o InsertUpload(x, Tail(s))

RECURSIVE SortUpload(_)
SortUpload(s) ==
    IF s = <<>> THEN <<>> ELSE InsertUpload(Head(s), SortUpload(Tail(s)))

\* lines 856-863: the record kept on SharePoint; the order date is the one
\* extract_order_date finds (line 668)
RecordColumns ==
    <<"sku", "pname", "qty", "paid", "platform", "name", "original_order",
      "master_sku", "tax", "pack", "order_date", "counterparty", "supply", "vat",
      "code", "item_code">>

RecordRow(r) ==
    [sku |-> r.sku, pname |-> r.pname, qty |-> r.qty, paid |-> PaidNumber(r),
     platform |-> r.platform, name |-> r.name, original_order |-> r.original_order,
     master_sku |-> r.master_sku, tax |-> r.tax, pack |-> r.pack,
     order_date |-> "order_date", counterparty |-> client_map(r.platform),
     supply |-> Round(SupplyValue(r)), vat |-> Round(VatValue(r)),
     code |-> TransactionType(r.tax), item_code |-> r.sku]

LedgerColumns == <<"sku", "pname", "qty", "paid", "platform", "name">>

\* lines 865-872
SuccessResult(ledger, summary, packing, merged, upload, warns) ==
    [returned |-> TRUE,
     ledger |-> Table(LedgerColumns, Project(ledger, LedgerColumns)),
     summary |-> Table(<<"pname", "count">>, summary),
     packing |-> Table(<<"bundle", "pname", "qty", "name", "platform">>, packing),
     upload |-> Table(AllButLast(ecount_columns),
                      Project(upload, AllButLast(ecount_columns))),
     record |-> Table(RecordColumns, [i \in 1..Len(merged) |-> RecordRow(merged[i])]),
     ok |-> TRUE, message |-> "done", warnings |-> warns]

Derive ==
    /\ pc = "derive"
    /\ ~Raises
    /\ df_merged' = Flatten([i \in 1..Len(df_main_result) |->
                                MasterJoin(df_main_result[i], df_master)])
    /\ warnings' = warnings \o UnmasteredWarnings(df_merged')
    /\ df_ecount_upload' = SortUpload([i \in 1..Len(df_merged') |->
                                          FillColumns(UploadRow(df_merged'[i]))])
    /\ result' = SuccessResult(df_main_result, df_quantity_summary,
                               df_packing_list_final, df_merged', df_ecount_upload',
                               warnings')
    /\ pc' = "done"
    /\ UNCHANGED <<missing, df_ecount_orig, df_smartstore, df_godomall, df_master,
                   godomall_warnings, smartstore_prices, godomall_prices_for_merge,
                   df_final, df_main_result, df_quantity_summary,
                   df_packing_list_final>>

Next ==
    \/ CorrectMallB
    \/ PrepareMerge
    \/ MergePrices
    \/ Override
    \/ Homonym
    \/ Assemble
    \/ Derive
    \/ Fail

-----------------------------------------------------------------------------
(* The inputs: the state once the three files are read, lines 660-676.     *)
(* The Mall-B columns carry their canonical names (the renames of lines    *)
(* 673-676 are done); the session state and the order date (lines 665-668) *)
(* are no part of a result table.                                          *)

ErpRow(sku, pname, qty, amount, platform, name) ==
    [sku |-> sku, pname |-> pname, qty |-> qty, amount |-> amount,
     platform |-> platform, name |-> name]

StoreRow(sku, qty, name, amount) ==
    [sku |-> sku, qty |-> qty, name |-> name, amount |-> amount]

MallRow(sku, name, qty, item, ship, member, coupon, mileage, total) ==
    [sku |-> sku, name |-> name, qty |-> qty, item |-> item, ship |-> ship,
     member |-> member, coupon |-> coupon, mileage |-> mileage, total |-> total]

MasterRow(sku, tax, pack) == [sku |-> sku, tax |-> tax, pack |-> pack]

\* line 670: original_order = range(len(df))
WithOrder(raw) ==
    [i \in 1..Len(raw) |->
        [sku |-> raw[i].sku, pname |-> raw[i].pname, qty |-> raw[i].qty,
         amount |-> raw[i].amount, platform |-> raw[i].platform,
         name |-> raw[i].name, original_order |-> i - 1]]

\* load_master_from_sharepoint drops rows repeating a SKU code (line 104)
UniqueSku(master) ==
    \A i, j \in 1..Len(master) : master[i].sku = master[j].sku => i = j

\* the run on inputs that lack `d`; a file that cannot be read leaves no table
StartMissing(ecount, smartstore, godomall, master, d) ==
    /\ pc = "correct_mallb"
    /\ df_ecount_orig = IF d = "unreadable" THEN <<>> ELSE WithOrder(ecount)
    /\ df_smartstore = IF d = "unreadable" THEN <<>> ELSE smartstore
    /\ df_godomall = IF d = "unreadable" THEN <<>> ELSE godomall
    /\ df_master = master
    /\ godomall_warnings = <<>>
    /\ smartstore_prices = <<>>
    /\ godomall_prices_for_merge = <<>>
    /\ df_final = <<>>
    /\ warnings = <<>>
    /\ df_main_result = <<>>
    /\ df_quantity_summary = <<>>
    /\ df_packing_list_final = <<>>
    /\ df_merged = <<>>
    /\ df_ecount_upload = <<>>
    /\ missing = d
    /\ result = NoResult

\* the run on inputs that lack nothing
Start(ecount, smartstore, godomall, master) ==
    StartMissing(ecount, smartstore, godomall, master, "none")

A == <<"A">>
B == <<"B">>
K == <<"K">>
L == <<"L">>
Lee == <<"L", "e", "e">>
Kim == <<"K", "i", "m">>
BOX == <<"B", "O", "X">>

\* The stages in program order, and "the block `st` has run".
Stages == <<"correct_mallb", "prepare", "merge", "override", "homonym",
            "assemble", "derive", "done">>

StageNo(st) == CHOOSE i \in 1..Len(Stages) : Stages[i] = st

Ran(st) == pc # "failed" /\ StageNo(pc) > StageNo(st)

-----------------------------------------------------------------------------
(* Spec: the price merger.  One ERP order line per platform, typed with a  *)
(* leading blank in its sku; storefront and Mall-B rows that repeat a key, *)
(* type it differently, miss it or lack an amount.                         *)

MaxErp == 2
MaxStore == 2
MaxMall == 2

ErpRows ==
    {ErpRow(Str(<<" ", "A">>), BOX, Num(1), Num(1000), pf, Str(K)) :
        pf \in {"smartstore", "godomall5", "coupang"}}

StoreRows ==
    {StoreRow(Str(A), Num(1), Str(K), Num(1200)),
     StoreRow(Str(A), Num(1), Str(K), NaN),
     StoreRow(Str(<<" ", "A">>), Num(1), Str(K), Num(1250)),
     StoreRow(Str(B), Num(1), Str(K), Num(1300))}

MallRows ==
    {MallRow(Str(sku), Str(K), Num(1), Num(1300), Num(2500), Num(0), Num(0), Num(0),
             Num(3800)) : sku \in {A, B}}

Master0 == <<MasterRow(A, "taxable", Num(6))>>

\* the run in which a file cannot be read
Unreadable == StartMissing(<<>>, <<>>, <<>>, Master0, "unreadable")

Init ==
    \/ \E e \in SeqsUpTo(ErpRows, MaxErp), s \in SeqsUpTo(StoreRows, MaxStore),
          g \in SeqsUpTo(MallRows, MaxMall) :
           Start(e, s, g, Master0)
    \/ Unreadable

Spec == Init /\ [][Next]_vars

-----------------------------------------------------------------------------
(* SpecMallB: the Mall-B corrector.  Rows of two consignees with a fee     *)
(* typed as a number or as text, a coupon of 0 or 1 and two order totals.  *)

MaxMallB == 3

MallBRows ==
    {MallRow(Str(A), Str(nm), Num(1), Num(1000), ship, Num(0), coupon, Num(0), total) :
        nm \in {K, L},
        ship \in {Num(3000), Str(<<"2", ",", "5", "0", "0", "W">>)},
        coupon \in {Num(0), Num(1)},
        total \in {Num(3998), Num(5001)}}

InitMallB ==
    \/ \E g \in SeqsUpTo(MallBRows, MaxMallB) :
           Start(<<ErpRow(Str(A), BOX, Num(1), Num(1000), "godomall5", Str(K))>>, <<>>, g,
                 Master0)
    \/ Unreadable

SpecMallB == InitMallB /\ [][Next]_vars

-----------------------------------------------------------------------------
(* SpecSplit: the split-order check.  ERP rows of consignees Lee and Kim,  *)
(* Lee also typed with a leading blank; no price source.                   *)

MaxSplit == 8

SplitRows ==
    {ErpRow(Str(A), BOX, Num(1), Num(1000), "coupang", Str(nm)) :
        nm \in {Lee, Kim, <<" ">> \o Lee}}

InitSplit ==
    \/ \E e \in SeqsUpTo(SplitRows, MaxSplit) : Start(e, <<>>, <<>>, Master0)
    \/ Unreadable

SpecSplit == InitSplit /\ [][Next]_vars

-----------------------------------------------------------------------------
(* SpecDerive: the derived fields.  Order lines of two skus, plain, boxed,  *)
(* 3-pack or both; a master table with at most one entry per sku, which    *)
(* may lack either sku or the pack size.                                   *)

MaxDerive == 2
MaxMaster == 2

DeriveRows ==
    {ErpRow(Str(sku), pname, Num(2), Num(amt), "coupang", Str(K)) :
        sku \in {A, B},
        pname \in {<<"u">>, <<"u">> \o BOX, <<"u", "3", "g">>,
                   <<"u">> \o BOX \o <<"3", "g", "i">>},
        amt \in {1100, 6}}

MasterRows ==
    {MasterRow(A, tax, pack) : tax \in {"taxable", "exempt"}, pack \in {Num(6), NaN}}
        \cup {MasterRow(B, "exempt", Num(6))}

InitDerive ==
    \/ \E e \in SeqsUpTo(DeriveRows, MaxDerive), m \in SeqsUpTo(MasterRows, MaxMaster) :
           UniqueSku(m) /\ Start(e, <<>>, <<>>, m)
    \/ Unreadable

SpecDerive == InitDerive /\ [][Next]_vars

-----------------------------------------------------------------------------
(* SpecUpload: the counterparties and the order of the upload.  Order      *)
(* lines of the five known platforms and of one the map does not know      *)
(* ("other"), of a taxable and of an exempt sku.                           *)

MaxUpload == 3

UploadRows ==
    {ErpRow(Str(sku), <<"u">>, Num(1), Num(1100), pf, Str(K)) :
        sku \in {A, B},
        pf \in {"godomall5", "smartstore", "coupang", "baemin", "ezwel", "other"}}

MasterUpload == <<MasterRow(A, "taxable", Num(6)), MasterRow(B, "exempt", Num(6))>>

InitUpload ==
    \/ \E e \in SeqsUpTo(UploadRows, MaxUpload) : Start(e, <<>>, <<>>, MasterUpload)
    \/ Unreadable

SpecUpload == InitUpload /\ [][Next]_vars

-----------------------------------------------------------------------------
(* SpecFail: runs that raise.  Inputs that lack nothing, a file that       *)
(* cannot be read, a storefront export without the amount column, an ERP   *)
(* export without the platform column, a master table without the pack     *)
(* size; ERP rows that bring a correction warning and a Mall-B order whose *)
(* total does not match, so that warnings exist when a late block raises.  *)

MaxFail == 2

Missing == {"none", "unreadable", "smartstore_amount", "ecount_platform", "master_pack"}

FailRows ==
    {ErpRow(Str(A), BOX, Num(1), Num(1000), pf, Str(nm)) :
        pf \in {"smartstore", "coupang"}, nm \in {K, L}}

FailMall ==
    {<<>>, <<MallRow(Str(A), Str(K), Num(1), Num(1000), Num(3000), Num(0), Num(0),
                     Num(0), Num(5001))>>}

InitFail ==
    \E e \in SeqsUpTo(FailRows, MaxFail), g \in FailMall, d \in Missing :
        StartMissing(e, <<>>, g, Master0, d)

SpecFail == InitFail /\ [][Next]_vars

-----------------------------------------------------------------------------
(* SpecRows: the rows of the outputs.  The ERP and storefront rows of      *)
(* Spec, with a master table that holds the sku or is empty.               *)

InitRows ==
    \/ \E e \in SeqsUpTo(ErpRows, MaxErp), s \in SeqsUpTo(StoreRows, MaxStore),
          m \in {<<>>, Master0} :
           Start(e, s, <<>>, m)
    \/ Unreadable

SpecRows == InitRows /\ [][Next]_vars

-----------------------------------------------------------------------------
(* SpecRound: the rounding of the tax base and of the tax amount.  Order   *)
(* lines of a taxable and of an exempt sku whose paid amounts cover every  *)
(* remainder modulo 11, a refund and the amount 1100.                      *)

MaxRound == 2

RoundAmounts == (0..10) \cup {-6, 1100}

RoundRows ==
    {ErpRow(Str(sku), <<"u">>, Num(1), Num(amt), "coupang", Str(K)) :
        sku \in {A, B}, amt \in RoundAmounts}

InitRound ==
    \/ \E e \in SeqsUpTo(RoundRows, MaxRound) : Start(e, <<>>, <<>>, MasterUpload)
    \/ Unreadable

SpecRound == InitRound /\ [][Next]_vars

-----------------------------------------------------------------------------
(* Properties of the price merger (Spec).                                  *)

Correctable(r) == r.platform \in {"smartstore", "godomall5"}

\* the ERP input row a ledger row stems from
ErpOf(l) == df_ecount_orig[l.original_order + 1]

\* the amounts of the records of a price table that carry the key of row l
AmountsFor(l, prices) ==
    {q.amt : q \in {x \in Range(prices) :
                       x.sku = l.sku /\ x.qty = l.qty /\ x.name = l.name}}

C2_OneRowPerOrderLine ==
    Ran("override") =>
        /\ Len(df_main_result) = Len(df_ecount_orig)
        /\ \A i \in 1..Len(df_main_result) :
              /\ df_main_result[i].original_order = i - 1
              /\ ~isna(df_main_result[i].paid)

\* the raw rows of a source whose key, trimmed and cast, is the key of q
RawRowsFor(q, df) ==
    {i \in 1..Len(df) :
        KeyStr(df[i].sku) = q.sku /\ KeyInt(df[i].qty) = q.qty /\ KeyStr(df[i].name) = q.name}

UniqueKeys(prices) ==
    \A i, j \in 1..Len(prices) :
        (/\ prices[i].sku = prices[j].sku
         /\ prices[i].qty = prices[j].qty
         /\ prices[i].name = prices[j].name) => i = j

\* C3: in each price table entering the join no two records share a key,
\* and the record of a key is the first raw row of that key.
C3_OneRecordPerKey ==
    Ran("prepare") =>
        /\ UniqueKeys(smartstore_prices)
        /\ UniqueKeys(godomall_prices_for_merge)
        /\ \A q \in Range(smartstore_prices) :
              q.amt = df_smartstore[Min(RawRowsFor(q, df_smartstore))].amount
        /\ \A q \in Range(godomall_prices_for_merge) :
              q.amt = Num(df_godomall[Min(RawRowsFor(q, df_godomall))].corrected)

\* the ledger rows of an ERP row
LedgerRowsOf(e) ==
    {i \in 1..Len(df_main_result) : df_main_result[i].original_order = e.original_order}

SourceAmt(r) == IF r.platform = "smartstore" THEN r.store_amt ELSE r.mall_amt

\* the merged rows of a correctable platform without an amount of their source
FailIdx == {i \in 1..Len(df_final) : Correctable(df_final[i]) /\ isna(SourceAmt(df_final[i]))}

RECURSIVE Ascending(_)
Ascending(S) == IF S = {} THEN <<>> ELSE <<Min(S)>> \o Ascending(S \ {Min(S)})

CorrectionWarnings == SelectSeq(warnings, LAMBDA w : w.kind = "correction_failed")

Overridden(i) ==
    /\ ~isna(SourceAmt(df_final[i]))
    /\ df_main_result[i].paid = SourceAmt(df_final[i])

\* C7: the correction-failure warnings are, in row order, the merged rows of
\* a correctable platform for which the join found no amount in the row's own
\* source; such a row keeps the ERP amount, every other row of a correctable
\* platform has its source's amount, and the amount the join found is one a
\* record of that source carries under the row's key.
C7_CorrectionFailure ==
    Ran("override") =>
        /\ Len(CorrectionWarnings) = Cardinality(FailIdx)
        /\ \A k \in 1..Len(CorrectionWarnings) :
              LET r == df_final[Ascending(FailIdx)[k]]
                  w == CorrectionWarnings[k]
              IN w.platform = r.platform /\ w.name = r.name /\ w.pname = r.pname
        /\ \A i \in 1..Len(df_final) :
              LET r == df_final[i]
                  src == IF r.platform = "smartstore" THEN smartstore_prices
                         ELSE godomall_prices_for_merge
              IN Correctable(r) =>
                    /\ (i \in FailIdx) = ~Overridden(i)
                    /\ i \in FailIdx => df_main_result[i].paid = r.paid
                    /\ IF AmountsFor(r, src) = {} THEN i \in FailIdx
                       ELSE SourceAmt(r) \in AmountsFor(r, src)

\* a smartstore row is warned about although Mall-B has an amount for its key,
\* and a godomall5 row is overridden without a warning
C7_Witness ==
    /\ pc = "done"
    /\ \E i \in FailIdx :
          df_final[i].platform = "smartstore" /\ ~isna(df_final[i].mall_amt)
    /\ \E i \in 1..Len(df_final) :
          df_final[i].platform = "godomall5" /\ Overridden(i)

-----------------------------------------------------------------------------
(* Properties of the Mall-B corrector (SpecMallB).                         *)

\* the rows of a consignee of the Mall-B export
RowsOf(nm) == {i \in 1..Len(df_godomall) : df_godomall[i].name = nm}

MallNames == {df_godomall[i].name : i \in 1..Len(df_godomall)}

\* C5: the first row of a consignee keeps its shipping fee, every later row
\* of the consignee has corrected shipping 0, and the corrected shipping of a
\* consignee's rows adds up to the fee of the first.
C5_ShippingDedup ==
    Ran("correct_mallb") =>
        \A nm \in MallNames :
            LET first == Min(RowsOf(nm))
            IN /\ df_godomall[first].corrected_shipping = df_godomall[first].ship.n
               /\ \A i \in RowsOf(nm) \ {first} : df_godomall[i].corrected_shipping = 0
               /\ SumSeq([i \in 1..Len(df_godomall) |->
                            IF i \in RowsOf(nm) THEN df_godomall[i].corrected_shipping
                            ELSE 0]) = df_godomall[first].ship.n

\* a consignee with several rows that all report a fee
C5_Witness ==
    /\ Ran("correct_mallb")
    /\ \E nm \in MallNames :
          /\ Cardinality(RowsOf(nm)) > 1
          /\ \A i \in RowsOf(nm) : df_godomall[i].ship.n > 0
          /\ \E i, j \in RowsOf(nm) : df_godomall[i].ship.n # df_godomall[j].ship.n

\* the corrected amount of row i by the rule of the claim
LineAmount(i) ==
    LET r == df_godomall[i]
    IN r.item.n + (IF i = Min(RowsOf(r.name)) THEN r.ship.n ELSE 0)
       - r.member.n - r.coupon.n - r.mileage.n

\* sum of the line amounts of a consignee minus the total on its first row
InvoiceDifference(nm) ==
    SumSeq([i \in 1..Len(df_godomall) |-> IF i \in RowsOf(nm) THEN LineAmount(i) ELSE 0])
    - df_godomall[Min(RowsOf(nm))].total.n

MismatchWarnings(nm) ==
    SelectSeq(godomall_warnings,
              LAMBDA w : w.kind = "godomall_mismatch" /\ Str(w.name) = nm)

\* C6: a consignee has one mismatch warning, carrying the signed difference,
\* when the difference is above 1 in absolute value and none otherwise; every
\* warning names a consignee of the export, and the corrected amounts are the
\* line amounts.
C6_InvoiceAudit ==
    Ran("correct_mallb") =>
        /\ \A nm \in MallNames :
              LET d == InvoiceDifference(nm)
              IN IF d > 1 \/ d < -1
                 THEN /\ Len(MismatchWarnings(nm)) = 1
                      /\ MismatchWarnings(nm)[1].amount = d
                 ELSE MismatchWarnings(nm) = <<>>
        /\ \A k \in 1..Len(godomall_warnings) : Str(godomall_warnings[k].name) \in MallNames
        /\ \A i \in 1..Len(df_godomall) : df_godomall[i].corrected = LineAmount(i)

\* differences of 1 and of -1 pass, differences of 2 and of -2 are flagged
C6_Witness ==
    /\ Ran("correct_mallb")
    /\ \E nm \in MallNames :
          InvoiceDifference(nm) \in {1, -1} /\ MismatchWarnings(nm) = <<>>
    /\ \E nm \in MallNames :
          InvoiceDifference(nm) \in {2, -2} /\ Len(MismatchWarnings(nm)) = 1

-----------------------------------------------------------------------------
(* Properties of the derived fields (SpecDerive).                          *)

Unregistered(sku) == \A k \in 1..Len(df_master) : df_master[k].sku # sku

\* the ledger row an upload row stems from
LedgerOf(u) == CHOOSE l \in Range(df_main_result) : l.original_order = u.original_order

\* C8: an upload row whose sku has no master entry is derived as taxable
\* with pack size 1: code 11, tax base the paid amount / 1.1 to the nearest
\* unit, tax amount the paid amount less the tax base, and shipment quantity
\* the order quantity times the 3-pack factor alone.
C8_UnmatchedDefaults ==
    pc = "done" =>
        \A k \in 1..Len(df_ecount_upload) :
            LET u == df_ecount_upload[k]
                l == LedgerOf(u)
                p == l.paid.n
            IN Unregistered(u.item_code) =>
                  /\ u.code = 11
                  /\ Abs(11 * u.supply - 10 * p) <= 5
                  /\ u.vat = p - u.supply
                  /\ u.quantity = l.qty * (IF is_3_pack(l) THEN 3 ELSE 1)

\* the merged row an upload row stems from
MergedOf(u) == CHOOSE r \in Range(df_merged) : r.original_order = u.original_order

\* n is the integer nearest to num / den
Nearest(n, num, den) == 2 * Abs(n * den - num) <= den

\* C11: an upload row whose master entry is taxable has code 11, tax base
\* the integer nearest to paid / 1.1 and tax amount the integer nearest to
\* paid less paid / 1.1 (1100 gives 1000 and 100); one whose master entry is
\* exempt has code 12, tax base the paid amount and tax amount 0.
C11_TaxDerivation ==
    pc = "done" =>
        \A k \in 1..Len(df_ecount_upload) :
            LET u == df_ecount_upload[k]
                r == MergedOf(u)
                p == LedgerOf(u).paid.n
            IN /\ r.tax = "taxable" =>
                     /\ u.code = 11
                     /\ Nearest(u.supply, 10 * p, 11)
                     /\ Nearest(u.vat, p, 11)
                     /\ p = 1100 => u.supply = 1000 /\ u.vat = 100
               /\ r.tax = "exempt" =>
                     /\ u.code = 12
                     /\ u.supply = p
                     /\ u.vat = 0

\* a taxable row of 1100 and an exempt row are in the upload
C11_Witness ==
    /\ pc = "done"
    /\ \E k \in 1..Len(df_ecount_upload) :
          /\ MergedOf(df_ecount_upload[k]).tax = "taxable"
          /\ LedgerOf(df_ecount_upload[k]).paid.n = 1100
          /\ df_ecount_upload[k].supply = 1000
    /\ \E k \in 1..Len(df_ecount_upload) :
          /\ MergedOf(df_ecount_upload[k]).tax = "exempt"
          /\ df_ecount_upload[k].code = 12

\* the pack size the master table gives the sku of ledger row l, 1 without one
PackOf(l) ==
    LET m == {x \in Range(df_master) : x.sku = l.sku /\ x.pack.t = "int"}
    IN IF m = {} THEN 1 ELSE (CHOOSE x \in m : TRUE).pack.n

BoxFactor(l) == IF Contains(l.pname, BOX) THEN PackOf(l) ELSE 1

ThreeFactor(l) ==
    IF Contains(l.pname, <<"3", "g", "i">>) \/ Contains(l.pname, <<"3", "g">>) THEN 3 ELSE 1

\* C12: the shipment quantity of an upload row is the order quantity times
\* the pack size when the product name holds BOX, times 3 when it holds the
\* 3-pack marker, both when it holds both (uBOX, pack 6, quantity 2 gives
\* 12, and 36 with the marker); it is a non-negative integer when the order
\* quantity is not negative and the pack size positive.
C12_ShipmentQuantity ==
    pc = "done" =>
        \A k \in 1..Len(df_ecount_upload) :
            LET u == df_ecount_upload[k]
                l == LedgerOf(u)
            IN /\ u.quantity = l.qty * BoxFactor(l) * ThreeFactor(l)
               /\ l.qty >= 0 /\ PackOf(l) > 0 => u.quantity \in Nat
               /\ l.pname = <<"u">> \o BOX /\ PackOf(l) = 6 /\ l.qty = 2 => u.quantity = 12
               /\ l.pname = <<"u">> \o BOX \o <<"3", "g", "i">> /\ PackOf(l) = 6 /\ l.qty = 2
                     => u.quantity = 36

\* a boxed row of 12 units and a boxed 3-pack row of 36 are in the upload
C12_Witness ==
    /\ pc = "done"
    /\ \E k \in 1..Len(df_ecount_upload) :
          /\ LedgerOf(df_ecount_upload[k]).pname = <<"u">> \o BOX
          /\ df_ecount_upload[k].quantity = 12
    /\ \E k \in 1..Len(df_ecount_upload) :
          /\ LedgerOf(df_ecount_upload[k]).pname = <<"u">> \o BOX \o <<"3", "g", "i">>
          /\ df_ecount_upload[k].quantity = 36

\* C19: the box count of an upload row is the order quantity when the
\* product name holds BOX and empty otherwise, whatever the pack size and
\* the 3-pack marker.
C19_BoxCount ==
    pc = "done" =>
        \A k \in 1..Len(df_ecount_upload) :
            LET u == df_ecount_upload[k]
                l == LedgerOf(u)
            IN u.box = IF Contains(l.pname, BOX) THEN Num(l.qty) ELSE NaN

\* a boxed 3-pack row of pack size 6 counts 2 boxes and 36 units, and a row
\* without BOX has no box count
C19_Witness ==
    /\ pc = "done"
    /\ \E k \in 1..Len(df_ecount_upload) :
          /\ df_ecount_upload[k].box = Num(2)
          /\ df_ecount_upload[k].quantity = 36
    /\ \E k \in 1..Len(df_ecount_upload) : df_ecount_upload[k].box = NaN


-----------------------------------------------------------------------------
(* Properties of the counterparties and of the upload order (SpecUpload).  *)

\* C20: the counterparty of an upload row is "coupang_corp" for platform
\* "coupang", "goraemi_mall_godomall" for "godomall5", "storefarm" for
\* "smartstore", "woowa_baemin" for "baemin", "hyundai_ezwel" for "ezwel",
\* and the platform string itself for any other platform.
C20_Counterparty ==
    pc = "done" =>
        \A k \in 1..Len(df_ecount_upload) :
            LET u == df_ecount_upload[k]
                pf == LedgerOf(u).platform
            IN /\ pf = "coupang" => u.counterparty = "coupang_corp"
               /\ pf = "godomall5" => u.counterparty = "goraemi_mall_godomall"
               /\ pf = "smartstore" => u.counterparty = "storefarm"
               /\ pf = "baemin" => u.counterparty = "woowa_baemin"
               /\ pf = "ezwel" => u.counterparty = "hyundai_ezwel"
               /\ pf \notin {"coupang", "godomall5", "smartstore", "baemin", "ezwel"}
                     => u.counterparty = pf

\* a row of a known platform and one of an unknown platform are in the upload
C20_Witness ==
    /\ pc = "done"
    /\ \E k \in 1..Len(df_ecount_upload) :
          /\ LedgerOf(df_ecount_upload[k]).platform = "ezwel"
          /\ df_ecount_upload[k].counterparty = "hyundai_ezwel"
    /\ \E k \in 1..Len(df_ecount_upload) :
          /\ LedgerOf(df_ecount_upload[k]).platform = "other"
          /\ df_ecount_upload[k].counterparty = "other"

\* the priority of a counterparty in the upload
Priority(c) ==
    CASE c = "goraemi_mall_godomall" -> 1
      [] c = "storefarm" -> 2
      [] c = "coupang_corp" -> 3
      [] c = "woowa_baemin" -> 4
      [] c = "hyundai_ezwel" -> 5
      [] OTHER -> 6

\* row a may stand before row b
InUploadOrder(a, b) ==
    \/ Priority(a.counterparty) < Priority(b.counterparty)
    \/ /\ Priority(a.counterparty) = Priority(b.counterparty)
       /\ \/ a.code < b.code
          \/ a.code = b.code /\ a.original_order <= b.original_order

\* C14: any two adjacent rows of the upload are in non-decreasing order of
\* (counterparty priority, transaction-type code, input position), a
\* counterparty outside the priority list after every listed one; the
\* returned table holds the rows in this order.
C14_UploadOrder ==
    pc = "done" =>
        /\ \A k \in 1..(Len(df_ecount_upload) - 1) :
              InUploadOrder(df_ecount_upload[k], df_ecount_upload[k + 1])
        /\ Len(result.upload.rows) = Len(df_ecount_upload)
        /\ \A k \in 1..Len(df_ecount_upload) :
              \A c \in {"counterparty", "code", "item_code", "customer"} :
                  result.upload.rows[k][c] = df_ecount_upload[k][c]

\* three rows enter as (unknown platform, coupang exempt, coupang taxable)
\* and leave as (coupang taxable, coupang exempt, unknown platform)
C14_Witness ==
    /\ pc = "done"
    /\ Len(df_ecount_upload) = 3
    /\ df_ecount_upload[1].original_order = 2
    /\ df_ecount_upload[1].code = 11
    /\ df_ecount_upload[2].original_order = 1
    /\ df_ecount_upload[2].code = 12
    /\ df_ecount_upload[2].counterparty = "coupang_corp"
    /\ df_ecount_upload[3].counterparty = "other"

-----------------------------------------------------------------------------
(* Properties of the split-order check (SpecSplit).                        *)

\* the input positions of the ERP rows of consignee Lee
LeeRows ==
    {df_ecount_orig[k].original_order :
        k \in {x \in 1..Len(df_ecount_orig) : KeyStr(df_ecount_orig[x].name) = Lee}}

HomonymWarnings_(nm) ==
    SelectSeq(warnings, LAMBDA w : w.kind = "homonym" /\ w.name = nm)

\* C9 (amended): with the rows of Lee at the input positions 3, 5, 7 and
\* 4, 6 and nowhere else, no split-order warning names Lee: the five rows
\* fill the positions 3 to 7.
C9_LeeNotFlagged ==
    (Ran("homonym") /\ LeeRows = 3..7) => HomonymWarnings_(Lee) = <<>>

\* C9 as claimed: with those rows a split-order warning names Lee.
C9_LeeFlagged ==
    (Ran("homonym") /\ LeeRows = 3..7) => HomonymWarnings_(Lee) # <<>>

\* eight ERP rows, Kim at 0, 1, 2 and Lee, typed alike, at 3 to 7
C9_Witness ==
    /\ pc = "done"
    /\ Len(df_ecount_orig) = 8
    /\ \A k \in 1..3 : df_ecount_orig[k].name = Str(Kim)
    /\ \A k \in 4..8 : df_ecount_orig[k].name = Str(Lee)
    /\ LeeRows = 3..7

LedgerNames == {df_main_result[i].name : i \in 1..Len(df_main_result)}

LedgerRowsNamed(nm) == {i \in 1..Len(df_main_result) : df_main_result[i].name = nm}

PositionsNamed(nm) == {df_main_result[i].original_order : i \in LedgerRowsNamed(nm)}

Split(nm) ==
    /\ Cardinality(LedgerRowsNamed(nm)) > 1
    /\ Max(PositionsNamed(nm)) - Min(PositionsNamed(nm)) + 1
          # Cardinality(LedgerRowsNamed(nm))

\* C10: a consignee of the ledger has one split-order warning when it has
\* several rows and max position - min position + 1 differs from their
\* number, and none otherwise; a split-order warning names a consignee of
\* the ledger.
C10_SplitRule ==
    Ran("homonym") =>
        /\ \A nm \in LedgerNames :
              Len(HomonymWarnings_(nm)) = (IF Split(nm) THEN 1 ELSE 0)
        /\ \A k \in 1..Len(warnings) :
              warnings[k].kind = "homonym" => warnings[k].name \in LedgerNames

\* one consignee flagged, one with several consecutive rows not flagged
C10_Witness ==
    /\ pc = "done"
    /\ \E nm \in LedgerNames : Split(nm) /\ Len(HomonymWarnings_(nm)) = 1
    /\ \E nm \in LedgerNames :
          /\ Cardinality(LedgerRowsNamed(nm)) > 1
          /\ ~Split(nm)
          /\ HomonymWarnings_(nm) = <<>>

-----------------------------------------------------------------------------
(* Properties of the packing list (SpecSplit).                             *)

Blank == Str(<<>>)

\* the numbered rows of the packing list, top to bottom
NumberedRows == SelectSeq(df_packing_list_final, LAMBDA r : r.bundle # Blank)

\* C13: the packing list holds the ledger rows in input order; a row has a
\* bundle number exactly when it is the first row or its consignee differs
\* from the previous row's; the bundle numbers read 1, 2, 3, ... from top to
\* bottom; the rows from a numbered row up to the next numbered row share
\* one consignee.
C13_Bundles ==
    Ran("assemble") =>
        LET packing == df_packing_list_final
            ledger == df_main_result
        IN /\ Len(packing) = Len(ledger)
           /\ \A i \in 1..Len(ledger) :
                 /\ i > 1 => ledger[i - 1].original_order <= ledger[i].original_order
                 /\ packing[i].name = ledger[i].name /\ packing[i].pname = ledger[i].pname
                 /\ packing[i].qty = ledger[i].qty /\ packing[i].platform = ledger[i].platform
           /\ \A i \in 1..Len(packing) :
                 (packing[i].bundle # Blank) <=> (i = 1 \/ packing[i].name # packing[i - 1].name)
           /\ \A j \in 1..Len(NumberedRows) : NumberedRows[j].bundle = Num(j)
           /\ \A i, j \in 1..Len(packing) :
                 (i < j /\ \A k \in (i + 1)..j : packing[k].bundle = Blank)
                     => packing[i].name = packing[j].name

\* Lee, Lee, Kim, Lee are packed as bundle 1 (two rows), bundle 2, bundle 3
C13_Witness ==
    /\ Ran("assemble")
    /\ Len(df_packing_list_final) = 4
    /\ df_packing_list_final[1].bundle = Num(1)
    /\ df_packing_list_final[2].bundle = Blank
    /\ df_packing_list_final[3].bundle = Num(2)
    /\ df_packing_list_final[4].bundle = Num(3)
    /\ df_packing_list_final[4].name = df_packing_list_final[1].name

-----------------------------------------------------------------------------
(* Properties of the return value (SpecFail).                              *)

ResultTables == <<result.ledger, result.summary, result.packing, result.upload,
                  result.record>>

\* C16: a run that raised has returned the failure flag, a message, no
\* table and an empty warning list, whatever tables and warnings it had by
\* then; a run on inputs that lack something never returns success; a run
\* that reached the end has returned the success flag, the five tables and
\* the warnings collected; before either, nothing is returned.
C16_FatalOutcome ==
    /\ pc = "failed" =>
          /\ result.returned /\ ~result.ok /\ result.message # ""
          /\ \A k \in 1..5 : ~ResultTables[k].present
          /\ result.warnings = <<>>
    /\ missing # "none" => pc # "done"
    /\ pc = "done" =>
          /\ result.returned /\ result.ok
          /\ \A k \in 1..5 : ResultTables[k].present
          /\ result.warnings = warnings
          /\ Len(result.ledger.rows) = Len(df_main_result)
          /\ result.summary.rows = df_quantity_summary
          /\ result.packing.rows = df_packing_list_final
          /\ Len(result.upload.rows) = Len(df_ecount_upload)
          /\ Len(result.record.rows) = Len(df_merged)
    /\ pc \notin {"failed", "done"} => ~result.returned

\* the master join raised after the ledger, the packing list and two
\* warnings were made
C16_Witness ==
    /\ pc = "failed"
    /\ missing = "master_pack"
    /\ Len(warnings) >= 2
    /\ df_main_result # <<>>
    /\ df_packing_list_final # <<>>
    /\ ~result.ok

-----------------------------------------------------------------------------
(* Properties of the rows of the outputs (SpecRows).                       *)

\* the upload rows of the ERP row at input position n
UploadRowsOf(n) ==
    {k \in 1..Len(df_ecount_upload) : df_ecount_upload[k].original_order = n}

\* the columns of the upload schema
SchemaColumns ==
    <<"date", "seq_no", "client_code", "counterparty", "staff", "warehouse", "code",
      "currency", "exchange_rate", "memo_slip", "receivable", "total", "linked_slip",
      "item_code", "item_name", "standard", "box", "quantity", "unit_price",
      "foreign_amount", "supply", "vat", "memo_item", "production_slip", "serial_lot",
      "management", "customer">>

\* the columns no derivation step produces
PlaceholderColumns ==
    {"seq_no", "client_code", "staff", "currency", "exchange_rate", "receivable",
     "total", "linked_slip", "item_name", "standard", "unit_price", "foreign_amount",
     "memo_item", "production_slip", "serial_lot", "management"}

\* C15: the upload holds exactly one row per ERP order line, its rows are
\* the ledger rows in some order, and the returned table has exactly the 27
\* schema columns in their order, the placeholder columns empty strings and
\* no input-position column.
C15_UploadShape ==
    pc = "done" =>
        /\ Len(df_ecount_upload) = Len(df_ecount_orig)
        /\ \A n \in 0..(Len(df_ecount_orig) - 1) : Cardinality(UploadRowsOf(n)) = 1
        /\ Len(df_ecount_upload) = Len(df_main_result)
        /\ \A i \in 1..Len(df_main_result) :
              \E k \in UploadRowsOf(df_main_result[i].original_order) :
                  /\ df_ecount_upload[k].item_code = df_main_result[i].sku
                  /\ df_ecount_upload[k].customer = df_main_result[i].name
        /\ Len(result.upload.rows) = Len(df_ecount_upload)
        /\ result.upload.columns = SchemaColumns
        /\ Len(result.upload.columns) = 27
        /\ \A k \in 1..Len(result.upload.rows) :
              /\ DOMAIN result.upload.rows[k] = Range(SchemaColumns)
              /\ \A c \in PlaceholderColumns : result.upload.rows[k][c] = ""

\* the unregistered-SKU warnings about sku
UnregisteredWarnings(sku) ==
    SelectSeq(warnings, LAMBDA w : w.kind = "unregistered" /\ w.name = sku)

\* the ERP order lines of sku
OrderLinesOf(sku) ==
    {n \in 1..Len(df_ecount_orig) : KeyStr(df_ecount_orig[n].sku) = sku}

\* C17: a sku without master entry has as many unregistered-SKU warnings as
\* ERP order lines, a sku with a master entry has none, and every order line
\* of the first kind is in the ledger, the quantity summary, the packing
\* list and the upload.
C17_UnregisteredOnce ==
    pc = "done" =>
        \A n \in 1..Len(df_ecount_orig) :
            LET sku == KeyStr(df_ecount_orig[n].sku)
            IN IF Unregistered(sku)
               THEN /\ Len(UnregisteredWarnings(sku)) = Cardinality(OrderLinesOf(sku))
                    /\ LedgerRowsOf(df_ecount_orig[n]) # {}
                    /\ UploadRowsOf(n - 1) # {}
                    /\ Len(df_packing_list_final) = Len(df_main_result)
                    /\ \E q \in 1..Len(df_quantity_summary) :
                          df_quantity_summary[q].pname = df_ecount_orig[n].pname
               ELSE UnregisteredWarnings(sku) = <<>>

-----------------------------------------------------------------------------
(* Properties of the quantity summary (SpecDerive).                        *)

\* the quantities of the first n ledger rows of product nm, added up
RECURSIVE LedgerQuantity(_, _)
LedgerQuantity(nm, n) ==
    IF n = 0 THEN 0
    ELSE LedgerQuantity(nm, n - 1)
            + (IF df_main_result[n].pname = nm THEN df_main_result[n].qty ELSE 0)

\* the quantities of the first n ledger rows, added up
RECURSIVE LedgerTotal(_)
LedgerTotal(n) == IF n = 0 THEN 0 ELSE LedgerTotal(n - 1) + df_main_result[n].qty

\* the counts of the first n summary rows, added up
RECURSIVE SummaryTotal(_)
SummaryTotal(n) == IF n = 0 THEN 0 ELSE SummaryTotal(n - 1) + df_quantity_summary[n].count

-----------------------------------------------------------------------------
(* Agreement of the split-order warning with the bundles (SpecRows).       *)

\* the rows of the packing list at which a bundle of consignee nm starts
BundleStarts(nm) ==
    {i \in 1..Len(df_packing_list_final) :
        /\ df_packing_list_final[i].name = nm
        /\ df_packing_list_final[i].bundle # Blank}

\* C22: a consignee of the ledger has a split-order warning exactly when at
\* least two bundles of the packing list start with a row of that consignee.
C22_WarningAgreesWithBundles ==
    Ran("assemble") =>
        \A nm \in LedgerNames :
            (HomonymWarnings_(nm) # <<>>) <=> (Cardinality(BundleStarts(nm)) >= 2)

-----------------------------------------------------------------------------
(* Properties of the rounding (SpecRound).                                 *)

\* C23: in every upload row the rounded tax base and the rounded tax amount
\* add up to the paid amount of its ledger row, for a taxable and for an
\* exempt sku.
C23_RoundingConsistency ==
    pc = "done" =>
        \A k \in 1..Len(df_ecount_upload) :
            df_ecount_upload[k].supply + df_ecount_upload[k].vat
                = LedgerOf(df_ecount_upload[k]).paid.n

\* a taxable row of 6 is split into 5 and 1, both fields rounded, next to an
\* exempt row of 6 split into 6 and 0
C23_Witness ==
    /\ pc = "done"
    /\ \E k \in 1..Len(df_ecount_upload) :
          /\ df_ecount_upload[k].code = 11
          /\ LedgerOf(df_ecount_upload[k]).paid.n = 6
          /\ df_ecount_upload[k].supply = 5
          /\ df_ecount_upload[k].vat = 1
    /\ \E k \in 1..Len(df_ecount_upload) :
          /\ df_ecount_upload[k].code = 12
          /\ df_ecount_upload[k].supply = 6
          /\ df_ecount_upload[k].vat = 0

====
